---- MODULE Spec2Model ----
(***************************************************************************)
(* A model of the data normalisation and metrics pipeline of               *)
(* mfs-trends-bd: src/etl.py (normalize_columns, tidy), src/fetch.py       *)
(* (_append_manual_if_present, fetch_raw), src/metrics.py                  *)
(* (aggregate_monthly, add_growth, seasonal_anomaly), called in the order  *)
(* of load_data in app/streamlit_app.py.  A stage that raises ends the run *)
(* (pc = "raised"); load_data's replacement of a failed fetch_raw by the   *)
(* synthetic sample is not part of the model.                              *)
(*                                                                         *)
(* Strings are sequences of one-character strings, so that strip, lower,   *)
(* the regular expressions and the numeric and date parsers are computed   *)
(* character by character.  A table is [cols, rows]: cols is the sequence  *)
(* of column labels and every row is a sequence of cells aligned with it.  *)
(* Cells and labels are tagged values [k, s, n].  Amounts are exact        *)
(* decimals [m, x] standing for m * 10^x (the binary floats of the code    *)
(* agree with them within float tolerance).                                *)
(***************************************************************************)
EXTENDS Integers, Sequences, FiniteSets, TLC

VARIABLES
    pc,          \* position of the run: which stage has completed
    raw,         \* the raw table handed to the stage under study
    manual,      \* the state of data/mfs_manual.csv
    df,          \* the table a stage returned (fetch_raw, normalize_columns)
    prev_df,     \* the table before the last normalize_columns pass
    clean,       \* tidy()'s output (date, category, amount_bdt)
    monthly,     \* aggregate_monthly()'s output
    with_growth, \* add_growth()'s output
    series,      \* the category series given to seasonal_anomaly
    flags,       \* seasonal_anomaly()'s result
    exc          \* "none", or the exception that ended the run

vars == <<pc, raw, manual, df, prev_df, clean, monthly, with_growth, series, flags, exc>>

-----------------------------------------------------------------------------
(* Characters and Python string methods *)

\* The characters of the model in code-point order ("nbsp" is U+00A0).
Alphabet ==
    <<" ", "(", ")", ",", "-", ".", "/",
      "0", "1", "2", "3", "4", "5", "6", "7", "8", "9", ":",
      "A", "B", "C", "D", "E", "F", "G", "H", "I", "J", "K", "L", "M",
      "N", "O", "P", "Q", "R", "S", "T", "U", "V", "W", "X", "Y", "Z", "_",
      "a", "b", "c", "d", "e", "f", "g", "h", "i", "j", "k", "l", "m",
      "n", "o", "p", "q", "r", "s", "t", "u", "v", "w", "x", "y", "z", "nbsp">>

CharCode(c) == CHOOSE i \in 1..Len(Alphabet) : Alphabet[i] = c

Digits == {"0", "1", "2", "3", "4", "5", "6", "7", "8", "9"}

UpperCase == {Alphabet[i] : i \in CharCode("A")..CharCode("Z")}

LowerCase == {Alphabet[i] : i \in CharCode("a")..CharCode("z")}

\* str.isspace() for the characters of the model
IsSpace(c) == c \in {" ", "nbsp"}

\* \w of the re module
IsWordChar(c) == c \in Digits \cup UpperCase \cup LowerCase \cup {"_"}

DigitVal(c) == CharCode(c) - CharCode("0")

LowerChar(c) ==
    IF c \in UpperCase THEN Alphabet[CharCode(c) + (CharCode("a") - CharCode("A"))] ELSE c

\* str.lower()
Lower(s) == [i \in 1..Len(s) |-> LowerChar(s[i])]

\* str.strip(): leading and trailing whitespace removed
Strip(s) ==
    LET keep == {i \in 1..Len(s) : ~IsSpace(s[i])}
    IN  IF keep = {} THEN <<>>
        ELSE LET lo == CHOOSE i \in keep : \A j \in keep : i <= j
                 hi == CHOOSE i \in keep : \A j \in keep : j <= i
             IN  SubSeq(s, lo, hi)

\* s[i:i+len(p)] == p
MatchAt(s, i, p) ==
    /\ i + Len(p) - 1 <= Len(s)
    /\ \A j \in 1..Len(p) : s[i + j - 1] = p[j]

\* str.startswith
StartsWith(s, p) == MatchAt(s, 1, p)

\* p in s
Contains(s, p) == \E i \in 1..(Len(s) + 1) : MatchAt(s, i, p)

\* the characters of s that satisfy Keep, in order
RECURSIVE FilterChars(_, _)
FilterChars(s, keep) ==
    IF s = <<>> THEN <<>>
    ELSE IF Head(s) \in keep THEN <<Head(s)>> \o FilterChars(Tail(s), keep)
         ELSE FilterChars(Tail(s), keep)

\* lexicographic order of two strings by code point (Python's str <)
RECURSIVE StrLess(_, _)
StrLess(a, b) ==
    IF b = <<>> THEN FALSE
    ELSE IF a = <<>> THEN TRUE
    ELSE IF Head(a) = Head(b) THEN StrLess(Tail(a), Tail(b))
    ELSE CharCode(Head(a)) < CharCode(Head(b))

-----------------------------------------------------------------------------
(* Exact decimals [m, x] = m * 10^x *)

RECURSIVE Pow10(_)
Pow10(n) == IF n <= 0 THEN 1 ELSE 10 * Pow10(n - 1)

\* the canonical form: no trailing zero in the mantissa, zero is [0, 0]
RECURSIVE DecNorm(_)
DecNorm(a) ==
    IF a.m = 0 THEN [m |-> 0, x |-> 0]
    ELSE IF a.m % 10 = 0 THEN DecNorm([m |-> a.m \div 10, x |-> a.x + 1])
    ELSE a

Dec(n) == DecNorm([m |-> n, x |-> 0])

DecZero == Dec(0)

Min2(a, b) == IF a <= b THEN a ELSE b

\* the mantissa of a at exponent e <= a.x
DecAt(a, e) == a.m * Pow10(a.x - e)

DecAdd(a, b) ==
    IF a.m = 0 THEN b
    ELSE IF b.m = 0 THEN a
    ELSE LET e == Min2(a.x, b.x)
         IN  DecNorm([m |-> DecAt(a, e) + DecAt(b, e), x |-> e])

\* a * 10^k
DecShift(a, k) == DecNorm([m |-> a.m, x |-> a.x + k])

-----------------------------------------------------------------------------
(* Cells, labels and tables *)

\* a Python str
Str(s) == [k |-> "str", s |-> s, n |-> <<>>]

\* float NaN and NaT, the missing markers of pandas
NaN == [k |-> "nan", s |-> <<>>, n |-> <<>>]

\* Python None
None == [k |-> "none", s |-> <<>>, n |-> <<>>]

\* a number, the decimal a
Num(a) == [k |-> "num", s |-> <<>>, n |-> <<a.m, a.x>>]

\* a Timestamp at midnight of year y, month m, day d
Ts(y, m, d) == [k |-> "ts", s |-> <<>>, n |-> <<y, m, d>>]

\* a fraction p/q of two integers, q # 0 (a growth rate)
Frac(p, q) == [k |-> "frac", s |-> <<>>, n |-> <<p, q>>]

\* float +inf (sgn = 1) and -inf (sgn = -1)
Inf(sgn) == [k |-> "inf", s |-> <<>>, n |-> <<sgn>>]

\* pandas isna()
IsNA(c) == c.k \in {"nan", "none"}

DecOf(c) == [m |-> c.n[1], x |-> c.n[2]]

\* str(c), as astype(str) computes it, for the cells a scraped table holds
PyStr(c) ==
    CASE c.k = "str" -> c.s
      [] c.k = "nan" -> <<"n", "a", "n">>
      [] c.k = "none" -> <<"N", "o", "n", "e">>

\* the increasing sequence of the elements of a finite set of integers
RECURSIVE SortedSeq(_)
SortedSeq(S) ==
    IF S = {} THEN <<>>
    ELSE LET lo == CHOOSE i \in S : \A j \in S : i <= j
         IN  <<lo>> \o SortedSeq(S \ {lo})

\* the positions of the columns labelled lbl
ColIdx(t, lbl) == {i \in 1..Len(t.cols) : t.cols[i] = Str(lbl)}

\* lbl in df.columns
HasCol(t, lbl) == ColIdx(t, lbl) # {}

\* df[lbl] is a DataFrame, not a Series: the label is duplicated
DupCol(t, lbl) == Cardinality(ColIdx(t, lbl)) > 1

Col(t, lbl) == CHOOSE i \in ColIdx(t, lbl) : TRUE

\* df.iloc[:, idx] for a sequence idx of positions
SelectCols(t, idx) ==
    [cols |-> [j \in 1..Len(idx) |-> t.cols[idx[j]]],
     rows |-> [r \in 1..Len(t.rows) |-> [j \in 1..Len(idx) |-> t.rows[r][idx[j]]]]]

\* df[mask]: the rows at the positions of keep, in order
SelectRows(t, keep) ==
    LET idx == SortedSeq(keep)
    IN  [cols |-> t.cols, rows |-> [j \in 1..Len(idx) |-> t.rows[idx[j]]]]

\* df[lbl] = vals: a new last column, or the existing one overwritten
SetCol(t, lbl, vals) ==
    IF HasCol(t, lbl)
    THEN [cols |-> t.cols,
          rows |-> [r \in 1..Len(t.rows) |->
                      [j \in 1..Len(t.cols) |->
                         IF j = Col(t, lbl) THEN vals[r] ELSE t.rows[r][j]]]]
    ELSE [cols |-> Append(t.cols, Str(lbl)),
          rows |-> [r \in 1..Len(t.rows) |-> Append(t.rows[r], vals[r])]]

\* the cells of column i
ColVals(t, i) == [r \in 1..Len(t.rows) |-> t.rows[r][i]]

-----------------------------------------------------------------------------
(* src/etl.py *)

CANON ==
    << <<(<<"m", "o", "n", "t", "h">>), (<<"m", "o", "n", "t", "h">>)>>,
       <<(<<"m", "o", "n", "t", "h", " ">>), (<<"m", "o", "n", "t", "h">>)>>,
       <<(<<"p", "a", "r", "t", "i", "c", "u", "l", "a", "r", "s">>),
         (<<"c", "a", "t", "e", "g", "o", "r", "y">>)>>,
       <<(<<"i", "t", "e", "m", "s">>), (<<"c", "a", "t", "e", "g", "o", "r", "y">>)>>,
       <<(<<"a", "m", "o", "u", "n", "t", " ", "(", "i", "n", " ", "c", "r", "o", "r", "e", " ", "b", "d", "t", ")">>),
         (<<"a", "m", "o", "u", "n", "t", "_", "c", "r", "o", "r", "e", "_", "b", "d", "t">>)>>,
       <<(<<"a", "m", "o", "u", "n", "t", "(", "i", "n", " ", "c", "r", "o", "r", "e", " ", "b", "d", "t", ")">>),
         (<<"a", "m", "o", "u", "n", "t", "_", "c", "r", "o", "r", "e", "_", "b", "d", "t">>)>>,
       <<(<<"v", "a", "l", "u", "e", "(", "i", "n", " ", "c", "r", "o", "r", "e", " ", "b", "d", "t", ")">>),
         (<<"a", "m", "o", "u", "n", "t", "_", "c", "r", "o", "r", "e", "_", "b", "d", "t">>)>>,
       <<(<<"p", "2", "p">>), (<<"P", "2", "P">>)>>,
       <<(<<"m", "e", "r", "c", "h", "a", "n", "t", " ", "p", "a", "y", "m", "e", "n", "t">>),
         (<<"M", "e", "r", "c", "h", "a", "n", "t", " ", "P", "a", "y", "m", "e", "n", "t">>)>>,
       <<(<<"c", "a", "s", "h", " ", "i", "n">>), (<<"C", "a", "s", "h", " ", "I", "n">>)>>,
       <<(<<"c", "a", "s", "h", " ", "o", "u", "t">>), (<<"C", "a", "s", "h", " ", "O", "u", "t">>)>>,
       <<(<<"s", "a", "l", "a", "r", "y", " ", "d", "i", "s", "b", "u", "r", "s", "e", "m", "e", "n", "t", " ", "(", "b", "2", "p", ")">>),
         (<<"S", "a", "l", "a", "r", "y", " ", "D", "i", "s", "b", "u", "r", "s", "e", "m", "e", "n", "t", " ", "(", "B", "2", "P", ")">>)>>,
       <<(<<"u", "t", "i", "l", "i", "t", "y", " ", "b", "i", "l", "l", " ", "p", "a", "y", "m", "e", "n", "t", " ", "(", "p", "2", "b", ")">>),
         (<<"U", "t", "i", "l", "i", "t", "y", " ", "B", "i", "l", "l", " ", "P", "a", "y", "m", "e", "n", "t", " ", "(", "P", "2", "B", ")">>)>>,
       <<(<<"g", "o", "v", "e", "r", "n", "m", "e", "n", "t", " ", "p", "a", "y", "m", "e", "n", "t">>),
         (<<"G", "o", "v", "e", "r", "n", "m", "e", "n", "t", " ", "P", "a", "y", "m", "e", "n", "t">>)>>,
       <<(<<"o", "t", "h", "e", "r", "s">>), (<<"O", "t", "h", "e", "r", "s">>)>> >>

\* a lookup whose table also sends the canonical name category onward, to
\* particulars
CanonGet_onward(c) ==
    IF c = <<"c", "a", "t", "e", "g", "o", "r", "y">>
    THEN <<"p", "a", "r", "t", "i", "c", "u", "l", "a", "r", "s">>
    ELSE IF \E i \in 1..Len(CANON) : CANON[i][1] = c
    THEN CANON[CHOOSE i \in 1..Len(CANON) : CANON[i][1] = c][2]
    ELSE c

\* CANON.get(c, c)
CanonGet(c) ==
    IF \E i \in 1..Len(CANON) : CANON[i][1] = c
    THEN CANON[CHOOSE i \in 1..Len(CANON) : CANON[i][1] = c][2]
    ELSE c

MonthAbbr ==
    << <<"j", "a", "n">>, <<"f", "e", "b">>, <<"m", "a", "r">>, <<"a", "p", "r">>,
       <<"m", "a", "y">>, <<"j", "u", "n">>, <<"j", "u", "l">>, <<"a", "u", "g">>,
       <<"s", "e", "p">>, <<"o", "c", "t">>, <<"n", "o", "v">>, <<"d", "e", "c">> >>

\* re.search(r"\b(20\d{2}|Jan|...|Dec)", s, re.I): at a word boundary, a
\* year 20dd or the three letters of a month, in either case
re_date(s) ==
    LET l == Lower(s)
    IN  \E i \in 1..Len(l) :
          /\ i = 1 \/ ~IsWordChar(l[i - 1])
          /\ \/ /\ MatchAt(l, i, <<"2", "0">>)
                /\ i + 3 <= Len(l)
                /\ l[i + 2] \in Digits
                /\ l[i + 3] \in Digits
             \/ \E k \in 1..Len(MonthAbbr) : MatchAt(l, i, MonthAbbr[k])

\* steps 1 of normalize_columns: "" for None, else str(c), stripped and lowered
NormLabel(c) == Lower(Strip(IF c.k = "none" THEN <<>> ELSE PyStr(c)))

normalize_columns(t) ==
    LET normed == [i \in 1..Len(t.cols) |-> NormLabel(t.cols[i])]
        \* 2) empty and unnamed labels are dropped
        named == {i \in 1..Len(normed) :
                    ~(normed[i] = <<>> \/ StartsWith(normed[i], <<"u", "n", "n", "a", "m", "e", "d">>))}
        \* 3) columns that are entirely NaN are dropped
        kept == {i \in named : \E r \in 1..Len(t.rows) : ~IsNA(t.rows[r][i])}
        idx == SortedSeq(kept)
        sel == SelectCols(t, idx)
    IN  \* 4) the canonical rename
        [cols |-> [j \in 1..Len(idx) |-> Str(CanonGet(normed[idx[j]]))],
         rows |-> sel.rows]

\* the value of a sequence of digits
RECURSIVE DigitsVal(_)
DigitsVal(s) ==
    IF s = <<>> THEN 0 ELSE 10 * DigitsVal(SubSeq(s, 1, Len(s) - 1)) + DigitVal(s[Len(s)])

AllDigits(s) == \A i \in 1..Len(s) : s[i] \in Digits

\* the cleaning chain of tidy: commas removed, U+00A0 made a space, then
\* every character but digits, dot and minus removed, then stripped
CleanAmount(s) ==
    LET noComma == FilterChars(s, {Alphabet[i] : i \in 1..Len(Alphabet)} \ {","})
        spaced == [i \in 1..Len(noComma) |-> IF noComma[i] = "nbsp" THEN " " ELSE noComma[i]]
        kept == FilterChars(spaced, Digits \cup {".", "-"})
    IN  Strip(kept)

\* pd.to_numeric(s, errors="coerce") of a string of digits, dots and minus
\* signs: [-]digits[.digits] with at least one digit is a number, anything
\* else (the empty string too) is NaN
to_numeric(s) ==
    LET neg == s # <<>> /\ Head(s) = "-"
        body == IF neg THEN Tail(s) ELSE s
        dots == {i \in 1..Len(body) : body[i] = "."}
        dot == IF dots = {} THEN Len(body) + 1 ELSE CHOOSE i \in dots : TRUE
        ip == SubSeq(body, 1, dot - 1)
        fp == SubSeq(body, dot + 1, Len(body))
        ok == /\ Cardinality(dots) <= 1
              /\ AllDigits(ip) /\ AllDigits(fp)
              /\ Len(ip) + Len(fp) >= 1
        mag == DigitsVal(ip \o fp)
    IN  IF ok THEN Num(DecNorm([m |-> IF neg THEN 0 - mag ELSE mag, x |-> 0 - Len(fp)]))
        ELSE NaN

ValidDate(y, m, d) == m \in 1..12 /\ d \in 1..31

\* pd.to_datetime(s, errors="coerce", dayfirst=True) of a string, for the
\* formats the tables of the model hold: "mon-yyyy" and "mon yyyy" (first of
\* the month), "yyyy-mm-dd", "yyyy-mm" and "yyyy"; anything else is NaT
ParseDate(s) ==
    LET l == Lower(s)
        mon == {k \in 1..Len(MonthAbbr) : MatchAt(l, 1, MonthAbbr[k])}
    IN  IF Len(l) = 8 /\ mon # {} /\ l[4] \in {"-", " "} /\ AllDigits(SubSeq(l, 5, 8))
        THEN Ts(DigitsVal(SubSeq(l, 5, 8)), CHOOSE k \in mon : TRUE, 1)
        ELSE IF /\ Len(l) = 10 /\ l[5] = "-" /\ l[8] = "-"
                /\ AllDigits(SubSeq(l, 1, 4)) /\ AllDigits(SubSeq(l, 6, 7))
                /\ AllDigits(SubSeq(l, 9, 10))
                /\ ValidDate(DigitsVal(SubSeq(l, 1, 4)), DigitsVal(SubSeq(l, 6, 7)),
                             DigitsVal(SubSeq(l, 9, 10)))
        THEN Ts(DigitsVal(SubSeq(l, 1, 4)), DigitsVal(SubSeq(l, 6, 7)), DigitsVal(SubSeq(l, 9, 10)))
        ELSE IF /\ Len(l) = 7 /\ l[5] = "-"
                /\ AllDigits(SubSeq(l, 1, 4)) /\ AllDigits(SubSeq(l, 6, 7))
                /\ ValidDate(DigitsVal(SubSeq(l, 1, 4)), DigitsVal(SubSeq(l, 6, 7)), 1)
        THEN Ts(DigitsVal(SubSeq(l, 1, 4)), DigitsVal(SubSeq(l, 6, 7)), 1)
        ELSE IF Len(l) = 4 /\ AllDigits(l)
        THEN Ts(DigitsVal(l), 1, 1)
        ELSE NaN

\* pd.to_datetime of a cell: a Timestamp is kept, a missing cell is NaT
to_datetime(c) ==
    CASE c.k = "ts" -> c
      [] c.k = "str" -> ParseDate(c.s)
      [] OTHER -> NaN

\* the concatenation of a sequence of sequences
RECURSIVE Flatten(_)
Flatten(ss) == IF ss = <<>> THEN <<>> ELSE Head(ss) \o Flatten(Tail(ss))

\* df.melt(id_vars, value_vars=mcols, var_name="month",
\* value_name="amount_crore_bdt"): one row per (row, month column), the
\* month columns in order, each carrying the identifier cells
melt(t, id_vars, mcols) ==
    [cols |-> [j \in 1..Len(id_vars) |-> t.cols[id_vars[j]]]
              \o <<Str(<<"m", "o", "n", "t", "h">>),
                   Str(<<"a", "m", "o", "u", "n", "t", "_", "c", "r", "o", "r", "e", "_", "b", "d", "t">>)>>,
     rows |-> Flatten([c \in 1..Len(mcols) |->
                [r \in 1..Len(t.rows) |->
                   [j \in 1..Len(id_vars) |-> t.rows[r][id_vars[j]]]
                   \o <<t.cols[mcols[c]], t.rows[r][mcols[c]]>>]])]

\* the markers of the row filter
Markers ==
    { <<"c", "a", "s", "h">>, <<"p", "2", "p">>, <<"u", "t", "i", "l", "i", "t", "y">>,
      <<"m", "e", "r", "c", "h", "a", "n", "t">>,
      <<"g", "o", "v", "e", "r", "n", "m", "e", "n", "t">>,
      <<"s", "a", "l", "a", "r", "y">>, <<"o", "t", "h", "e", "r", "s">> }

\* str.contains("cash|p2p|utility|merchant|government|salary|others", case=False)
ContainsMarker(s) == \E mk \in Markers : Contains(Lower(s), mk)

\* the labels tidy reads and writes
L_amount_crore_bdt == <<"a", "m", "o", "u", "n", "t", "_", "c", "r", "o", "r", "e", "_", "b", "d", "t">>

L_amount_bdt == <<"a", "m", "o", "u", "n", "t", "_", "b", "d", "t">>

L_category == <<"c", "a", "t", "e", "g", "o", "r", "y">>

L_month == <<"m", "o", "n", "t", "h">>

L_year == <<"y", "e", "a", "r">>

L_date == <<"d", "a", "t", "e">>

EmptyTable == [cols |-> <<>>, rows |-> <<>>]

\* a function returned t
Ok(t) == [exc |-> "none", out |-> t]

\* a function raised e
Raise(e) == [exc |-> e, out |-> EmptyTable]

\* the next statement runs only if the previous one did not raise
Then(res, Step(_)) == IF res.exc # "none" THEN res ELSE Step(res.out)

\* tidy, "Wide->long": without an amount column the date-like columns are
\* melted.  melt pops each identifier label once, so a label that two
\* identifier columns share raises.
reshape(t) ==
    IF HasCol(t, L_amount_crore_bdt) THEN Ok(t)
    ELSE LET mset == {i \in 1..Len(t.cols) : re_date(PyStr(t.cols[i]))}
             mcols == SortedSeq(mset)
             id_vars == SortedSeq((1..Len(t.cols)) \ mset)
         IN  IF mcols = <<>> THEN Ok(t)
             ELSE IF \E i, j \in 1..Len(id_vars) :
                        i # j /\ t.cols[id_vars[i]] = t.cols[id_vars[j]]
             THEN Raise("KeyError")
             ELSE Ok(melt(t, id_vars, mcols))

\* tidy, "Create category column where needed": df.columns[0] of a table
\* without columns raises
ensure_category(t) ==
    IF HasCol(t, L_category) THEN Ok(t)
    ELSE IF t.cols = <<>> THEN Raise("IndexError")
    ELSE Ok(SetCol(t, L_category, ColVals(t, 1)))

\* tidy, "Clean numeric" and "Drop rows where we still couldn't read a
\* number".  A missing amount column raises KeyError; a duplicated one makes
\* df[...] a DataFrame, which has no .str
clean_numeric(t) ==
    IF ~HasCol(t, L_amount_crore_bdt) THEN Raise("KeyError")
    ELSE IF DupCol(t, L_amount_crore_bdt) THEN Raise("AttributeError")
    ELSE LET a == Col(t, L_amount_crore_bdt)
             val == [r \in 1..Len(t.rows) |-> to_numeric(CleanAmount(PyStr(t.rows[r][a])))]
         IN  Ok(SelectRows(SetCol(t, L_amount_crore_bdt, val),
                           {r \in 1..Len(t.rows) : ~IsNA(val[r])}))

\* tidy, "Parse date": from month, else from year, else no date column is
\* made.  to_datetime of a DataFrame (a duplicated label) that has no
\* year/month/day columns raises ValueError
parse_date(t) ==
    IF HasCol(t, L_month)
    THEN IF DupCol(t, L_month) THEN Raise("ValueError")
         ELSE Ok(SetCol(t, L_date,
                  [r \in 1..Len(t.rows) |-> to_datetime(t.rows[r][Col(t, L_month)])]))
    ELSE IF HasCol(t, L_year)
    THEN IF DupCol(t, L_year) THEN Raise("ValueError")
         ELSE Ok(SetCol(t, L_date,
                  [r \in 1..Len(t.rows) |->
                     to_datetime(Str(PyStr(t.rows[r][Col(t, L_year)])
                                     \o <<"-", "0", "1", "-", "0", "1">>))]))
    ELSE Ok(t)

\* the category made a stripped string, but no row dropped
keep_mfs_rows_all(t) ==
    IF DupCol(t, L_category) THEN Raise("AttributeError")
    ELSE LET c == Col(t, L_category)
             cat == [r \in 1..Len(t.rows) |-> Str(Strip(PyStr(t.rows[r][c])))]
         IN  Ok(SetCol(t, L_category, cat))

\* tidy, "Keep likely MFS rows": the category is made a stripped string and
\* the rows without a marker are dropped
keep_mfs_rows(t) ==
    IF DupCol(t, L_category) THEN Raise("AttributeError")
    ELSE LET c == Col(t, L_category)
             cat == [r \in 1..Len(t.rows) |-> Str(Strip(PyStr(t.rows[r][c])))]
         IN  Ok(SelectRows(SetCol(t, L_category, cat),
                           {r \in 1..Len(t.rows) : ContainsMarker(cat[r].s)}))

\* a conversion by 1e6 instead of 1e7
to_bdt_1e6(t) ==
    Ok(SetCol(t, L_amount_bdt,
        [r \in 1..Len(t.rows) |->
           Num(DecShift(DecOf(t.rows[r][Col(t, L_amount_crore_bdt)]), 6))]))

\* tidy, "Convert crore BDT -> BDT": amount_crore_bdt * 1e7
to_bdt(t) ==
    Ok(SetCol(t, L_amount_bdt,
        [r \in 1..Len(t.rows) |->
           Num(DecShift(DecOf(t.rows[r][Col(t, L_amount_crore_bdt)]), 7))]))

\* tidy, df[["date", "category", "amount_bdt"]].dropna(): a missing date
\* column raises KeyError
project(t) ==
    IF ~HasCol(t, L_date) THEN Raise("KeyError")
    ELSE LET sel == SelectCols(t, <<Col(t, L_date), Col(t, L_category), Col(t, L_amount_bdt)>>)
         IN  Ok(SelectRows(sel, {r \in 1..Len(sel.rows) :
                                   \A j \in 1..3 : ~IsNA(sel.rows[r][j])}))

tidy(t) ==
    Then(Then(Then(Then(Then(Then(
        Ok(normalize_columns(t)),
        reshape), ensure_category), clean_numeric), parse_date), keep_mfs_rows),
        LAMBDA d : Then(to_bdt(d), project))

-----------------------------------------------------------------------------
(* Sorting and key comparison, as pandas does them *)

\* a < b for two Timestamps
TsLess(a, b) ==
    \/ a.n[1] < b.n[1]
    \/ a.n[1] = b.n[1] /\ a.n[2] < b.n[2]
    \/ a.n[1] = b.n[1] /\ a.n[2] = b.n[2] /\ a.n[3] < b.n[3]

\* two cells are the same key for drop_duplicates and groupby: missing
\* values are one key
SameKey(a, b) == (IsNA(a) /\ IsNA(b)) \/ (a.k = b.k /\ a.s = b.s /\ a.n = b.n)

\* the ascending order of sort_values on one column, missing values last;
\* where a column mixes strings with Timestamps the non-strings come first
KeyLess(a, b) ==
    IF IsNA(a) THEN FALSE
    ELSE IF IsNA(b) THEN TRUE
    ELSE IF a.k = "str" /\ b.k = "str" THEN StrLess(a.s, b.s)
    ELSE IF a.k = "ts" /\ b.k = "ts" THEN TsLess(a, b)
    ELSE a.k # "str" /\ b.k = "str"

\* row a sorts before row b on the columns at positions by (a sequence)
RECURSIVE RowLess(_, _, _)
RowLess(a, b, by) ==
    IF by = <<>> THEN FALSE
    ELSE IF KeyLess(a[Head(by)], b[Head(by)]) THEN TRUE
    ELSE IF KeyLess(b[Head(by)], a[Head(by)]) THEN FALSE
    ELSE RowLess(a, b, Tail(by))

\* row r inserted into the sorted sequence rows, after the rows not greater
RECURSIVE InsertRow(_, _, _)
InsertRow(rows, r, by) ==
    IF rows = <<>> THEN <<r>>
    ELSE IF RowLess(r, Head(rows), by) THEN <<r>> \o rows
    ELSE <<Head(rows)>> \o InsertRow(Tail(rows), r, by)

\* a stable sort of rows on the columns at positions by
RECURSIVE SortRows(_, _)
SortRows(rows, by) ==
    IF rows = <<>> THEN <<>>
    ELSE InsertRow(SortRows(SubSeq(rows, 1, Len(rows) - 1), by), rows[Len(rows)], by)

\* df.sort_values(labels)
sort_values(t, by) == [cols |-> t.cols, rows |-> SortRows(t.rows, by)]

\* a column of the table mixes strings with Timestamps
MixedCol(t, i) ==
    /\ \E r \in 1..Len(t.rows) : t.rows[r][i].k = "str"
    /\ \E r \in 1..Len(t.rows) : t.rows[r][i].k = "ts"

-----------------------------------------------------------------------------
(* src/fetch.py *)

\* cols = {c.lower().strip(): c for c in manual.columns}: the position of the
\* column that name looks up (the last one, as later keys overwrite), 0 for none
ManualLookup(t, name) ==
    LET hit == {i \in 1..Len(t.cols) : Strip(Lower(PyStr(t.cols[i]))) = name}
    IN  IF hit = {} THEN 0 ELSE CHOOSE i \in hit : \A j \in hit : j <= i

\* pd.to_numeric(col, errors="coerce").fillna(0) of one cell of the manual file
ManualAmount(c) ==
    LET v == IF c.k = "num" THEN c ELSE IF c.k = "str" THEN to_numeric(c.s) ELSE NaN
    IN  IF IsNA(v) THEN DecZero ELSE DecOf(v)

\* pd.concat([a, b], ignore_index=True): the union of the columns, a's first,
\* and NaN where a row has no such column
concat(a, b) ==
    LET extra == SortedSeq({j \in 1..Len(b.cols) :
                              \A i \in 1..Len(a.cols) : a.cols[i] # b.cols[j]})
        cols == a.cols \o [j \in 1..Len(extra) |-> b.cols[extra[j]]]
        FromB(row, c) ==
            IF \E j \in 1..Len(b.cols) : b.cols[j] = c
            THEN row[CHOOSE j \in 1..Len(b.cols) : b.cols[j] = c]
            ELSE NaN
    IN  [cols |-> cols,
         rows |-> [r \in 1..Len(a.rows) |->
                     a.rows[r] \o [j \in 1..Len(extra) |-> NaN]]
                  \o [r \in 1..Len(b.rows) |->
                        [i \in 1..Len(cols) |-> FromB(b.rows[r], cols[i])]]]

\* df.drop_duplicates(subset=[the labels at positions by], keep="last")
drop_duplicates_last(t, by) ==
    SelectRows(t, {r \in 1..Len(t.rows) :
        ~\E q \in (r + 1)..Len(t.rows) :
            \A i \in 1..Len(by) : SameKey(t.rows[r][by[i]], t.rows[q][by[i]])})

\* The manual table normalised to (month, category, amount_bdt) and merged.
\* Only the concat/drop_duplicates/sort_values block is inside the try: the
\* lookup of the category column and pd.to_datetime of the month column
\* (errors="raise") are not.
\* mixed_sort is how the pandas of the build orders a column that holds both
\* strings and Timestamps: "raise" (TypeError, caught: df is returned) or
\* "order" (the Timestamps first).
merge_manual(t, man, mixed_sort) ==
    LET a_bdt == ManualLookup(man, L_amount_bdt)
        a_crore == ManualLookup(man, L_amount_crore_bdt)
        c_cat == ManualLookup(man, L_category)
        c_month == ManualLookup(man, L_month)
        amount == [r \in 1..Len(man.rows) |->
                     IF a_bdt # 0 THEN Num(ManualAmount(man.rows[r][a_bdt]))
                     ELSE Num(DecShift(ManualAmount(man.rows[r][a_crore]), 7))]
        norm == [cols |-> <<Str(L_month), Str(L_category), Str(L_amount_bdt)>>,
                 rows |-> [r \in 1..Len(man.rows) |->
                             <<to_datetime(man.rows[r][c_month]),
                               Str(PyStr(man.rows[r][c_cat])),
                               amount[r]>>]]
        merged == concat(t, norm)
        by == <<Col(merged, L_month), Col(merged, L_category)>>
        dedup == drop_duplicates_last(merged, by)
    IN  IF a_bdt = 0 /\ a_crore = 0 THEN Ok(t)
        ELSE IF c_cat = 0 THEN Raise("KeyError")
        ELSE IF \E r \in 1..Len(man.rows) :
                   man.rows[r][c_month].k = "str" /\ IsNA(to_datetime(man.rows[r][c_month]))
        THEN Raise("ValueError")
        ELSE IF MixedCol(dedup, by[1]) /\ mixed_sort = "raise" THEN Ok(t)
        ELSE Ok(sort_values(dedup, by))

\* the manual file: absent, not readable as CSV, or the table read_csv parses
ManualAbsent == [state |-> "absent", table |-> EmptyTable]

ManualUnreadable == [state |-> "unreadable", table |-> EmptyTable]

ManualCsv(t) == [state |-> "csv", table |-> t]

\* _append_manual_if_present: an absent file, a file read_csv cannot parse and
\* a file without a column named month (parse_dates=["month"] raises) return df
append_manual_if_present(t, man, mixed_sort) ==
    IF man.state = "absent" THEN Ok(t)
    ELSE IF man.state = "unreadable" THEN Ok(t)
    ELSE IF ~HasCol(man.table, L_month) THEN Ok(t)
    ELSE merge_manual(t, man.table, mixed_sort)

\* fetch_raw, for a table the site delivered (as HTML or PDF): the source
\* column is added and the manual history appended
fetch_raw(t, source, man, mixed_sort) ==
    append_manual_if_present(
        SetCol(t, <<"s", "o", "u", "r", "c", "e">>, [r \in 1..Len(t.rows) |-> Str(source)]),
        man, mixed_sort)

-----------------------------------------------------------------------------
(* src/metrics.py *)

L_mom == <<"m", "o", "m">>

L_yoy == <<"y", "o", "y">>

\* the date left as it is, not truncated to its month
MonthStart_exact(d) == d

\* d.dt.to_period("M").dt.to_timestamp(): the first day of the month
MonthStart(d) == Ts(d.n[1], d.n[2], 1)

\* the sum of the amounts of the rows at the positions of S (column a)
RECURSIVE SumAmounts(_, _, _)
SumAmounts(rows, a, S) ==
    IF S = {} THEN DecZero
    ELSE LET r == CHOOSE q \in S : TRUE
         IN  DecAdd(DecOf(rows[r][a]), SumAmounts(rows, a, S \ {r}))

\* assign(month=...).groupby(["month", "category"], as_index=False)
\* ["amount_bdt"].sum(): one row per key, the keys in sorted order
aggregate_monthly(t) ==
    LET d == Col(t, L_date)
        c == Col(t, L_category)
        a == Col(t, L_amount_bdt)
        month == [r \in 1..Len(t.rows) |-> MonthStart(t.rows[r][d])]
        Same(r, q) == month[r] = month[q] /\ t.rows[r][c] = t.rows[q][c]
        firsts == SortedSeq({r \in 1..Len(t.rows) : ~\E q \in 1..(r - 1) : Same(r, q)})
        groups == [g \in 1..Len(firsts) |->
                     <<month[firsts[g]], t.rows[firsts[g]][c],
                       Num(SumAmounts(t.rows, a, {q \in 1..Len(t.rows) : Same(firsts[g], q)}))>>]
    IN  [cols |-> <<Str(L_month), Str(L_category), Str(L_amount_bdt)>>,
         rows |-> SortRows(groups, <<1, 2>>)]

Sign(n) == IF n < 0 THEN 0 - 1 ELSE 1

\* cur / prev - 1 in float arithmetic: 0/0 is NaN, x/0 is +-inf
pct(cur, prev) ==
    LET e == Min2(cur.x, prev.x)
        A == DecAt(cur, e)
        B == DecAt(prev, e)
    IN  IF B = 0 THEN (IF A = 0 THEN NaN ELSE Inf(Sign(A)))
        ELSE Frac(A - B, B)

\* pct_change on the whole column, not within each category
pct_change_ungrouped(t, periods) ==
    LET a == Col(t, L_amount_bdt)
    IN  [i \in 1..Len(t.rows) |->
           IF i - periods >= 1
           THEN pct(DecOf(t.rows[i][a]), DecOf(t.rows[i - periods][a]))
           ELSE NaN]

\* groupby("category")["amount_bdt"].pct_change(periods) on a table sorted by
\* category: row i is compared with the row periods places before it in its
\* own category group, NaN when the group has no such row
pct_change(t, periods) ==
    LET c == Col(t, L_category)
        a == Col(t, L_amount_bdt)
    IN  [i \in 1..Len(t.rows) |->
           IF i - periods >= 1 /\ t.rows[i - periods][c] = t.rows[i][c]
           THEN pct(DecOf(t.rows[i][a]), DecOf(t.rows[i - periods][a]))
           ELSE NaN]

YoyPeriods == 12

add_growth(t) ==
    LET sorted == sort_values(t, <<Col(t, L_category), Col(t, L_month)>>)
        with_mom == SetCol(sorted, L_mom, pct_change(sorted, 1))
    IN  SetCol(with_mom, L_yoy, pct_change(sorted, YoyPeriods))

\* fillna(method="ffill"): a missing value takes the last value before it
ffill(v) ==
    [i \in 1..Len(v) |->
       LET before == {j \in 1..i : ~IsNA(v[j])}
       IN  IF before = {} THEN NaN ELSE v[CHOOSE j \in before : \A q \in before : q <= j]]

\* need at least 2 years for stable seasonality
MinObs == 24

\* seasonal_anomaly with the threshold one observation lower
seasonal_anomaly_23(s, stl) ==
    LET idx == s.index
        filled == ffill(s.values)
    IN  IF Len(filled) < MinObs - 1
        THEN [exc |-> "none",
              out |-> [index |-> idx, values |-> [i \in 1..Len(filled) |-> FALSE]]]
        ELSE IF stl.raised
        THEN [exc |-> "ValueError", out |-> [index |-> <<>>, values |-> <<>>]]
        ELSE [exc |-> "none",
              out |-> [index |-> idx, values |-> [i \in 1..Len(filled) |-> i \in stl.flagged]]]

\* seasonal_anomaly.  s is [index, values].  The STL fit of statsmodels is not
\* computed here: stl is its outcome, [raised, flagged], whether the fit raised
\* and otherwise the positions whose standardised residual exceeds 2.
seasonal_anomaly(s, stl) ==
    LET idx == s.index
        filled == ffill(s.values)
    IN  IF Len(filled) < MinObs
        THEN [exc |-> "none",
              out |-> [index |-> idx, values |-> [i \in 1..Len(filled) |-> FALSE]]]
        ELSE IF stl.raised
        THEN [exc |-> "ValueError", out |-> [index |-> <<>>, values |-> <<>>]]
        ELSE [exc |-> "none",
              out |-> [index |-> idx, values |-> [i \in 1..Len(filled) |-> i \in stl.flagged]]]

-----------------------------------------------------------------------------
(* The raw tables given to normalize_columns and tidy *)

\* the most rows of a raw table
MaxRows == 2

\* The column layouts: each column is <<label, role>>, the role saying which
\* cell of a row template the column takes.
RawShapes ==
    { \* wide, one column per month
      << <<Str(<<"P", "a", "r", "t", "i", "c", "u", "l", "a", "r", "s">>), "cat">>,
         <<Str(<<"J", "a", "n", "-", "2", "0", "2", "4">>), "amt">>,
         <<Str(<<"F", "E", "B", "-", "2", "0", "2", "4", " ">>), "amt2">> >>,
      \* wide, with a date-like header that is no date
      << <<Str(<<" ", "I", "t", "e", "m", "s", " ">>), "cat">>,
         <<Str(<<"M", "a", "r", "k", "e", "t", " ", "S", "h", "a", "r", "e">>), "amt">>,
         <<Str(<<"F", "e", "b", "-", "2", "0", "2", "4">>), "amt2">> >>,
      \* wide, the first column no synonym of category, after a None header
      << <<None, "junk">>,
         <<Str(<<"S", "e", "r", "v", "i", "c", "e">>), "cat">>,
         <<Str(<<"J", "a", "n", "-", "2", "0", "2", "4">>), "amt">> >>,
      \* wide, two columns that are both renamed category
      << <<Str(<<"P", "a", "r", "t", "i", "c", "u", "l", "a", "r", "s">>), "cat">>,
         <<Str(<<" ", "I", "t", "e", "m", "s", " ">>), "cat">>,
         <<Str(<<"J", "a", "n", "-", "2", "0", "2", "4">>), "amt">> >>,
      \* long, with loose headers
      << <<Str(<<"M", "o", "n", "t", "h">>), "date">>,
         <<Str(<<"P", "a", "r", "t", "i", "c", "u", "l", "a", "r", "s">>), "cat">>,
         <<Str(<<"A", "m", "o", "u", "n", "t", " ", "(", "i", "n", " ", "c", "r", "o", "r", "e", " ", "B", "D", "T", ")">>), "amt">> >>,
      \* long by year, after an unnamed column
      << <<Str(<<"U", "n", "n", "a", "m", "e", "d", ":", " ", "0">>), "junk">>,
         <<Str(<<"Y", "e", "a", "r">>), "year">>,
         <<Str(<<" ", "I", "t", "e", "m", "s", " ">>), "cat">>,
         <<Str(<<"V", "a", "l", "u", "e", "(", "i", "n", " ", "c", "r", "o", "r", "e", " ", "B", "D", "T", ")">>), "amt">> >>,
      \* long, canonical headers
      << <<Str(L_month), "date">>, <<Str(L_category), "cat">>,
         <<Str(L_amount_crore_bdt), "amt">> >>,
      \* an amount column, neither month nor year
      << <<Str(<<"P", "a", "r", "t", "i", "c", "u", "l", "a", "r", "s">>), "cat">>,
         <<Str(<<"A", "m", "o", "u", "n", "t", "(", "i", "n", " ", "c", "r", "o", "r", "e", " ", "B", "D", "T", ")">>), "amt">> >>,
      \* no amount column and no date-like header
      << <<Str(<<"P", "a", "r", "t", "i", "c", "u", "l", "a", "r", "s">>), "cat">>,
         <<Str(<<"V", "a", "l", "u", "e">>), "amt">> >>,
      << <<Str(<<"S", "e", "r", "v", "i", "c", "e">>), "cat">>,
         <<Str(<<"T", "o", "t", "a", "l">>), "amt">>,
         <<None, "junk">> >>,
      \* one row per month and one column per category
      << <<Str(<<"M", "o", "n", "t", "h">>), "date">>,
         <<Str(<<" ", "p", "2", "p", " ">>), "amt">>,
         <<Str(<<"C", "A", "S", "H", " ", "I", "N">>), "amt2">> >> }

CashIn == Str(<<"C", "a", "s", "h", " ", "I", "n">>)

SpacedP2P == Str(<<" ", "p", "2", "p", " ">>)

Total == Str(<<"T", "o", "t", "a", "l">>)

\* the amount cells: a number with commas, one with a prefix and a sign, None
AmtCells ==
    << Str(<<"1", "2", ",", "0", "0", "0", ",", "0", "0", "0">>),
       Str(<<"B", "D", "T", " ", "-", "1", ".", "5">>),
       None >>

GoodDate == Str(<<"2", "0", "2", "4", "-", "0", "1", "-", "1", "5">>)

BadDate == Str(<<"n", "/", "a">>)

\* the row templates: a category cell, the position of an amount cell, a date cell
RowTemplates ==
    { [cat |-> CashIn, amt |-> 1, dt |-> GoodDate],
      [cat |-> CashIn, amt |-> 2, dt |-> GoodDate],
      [cat |-> CashIn, amt |-> 3, dt |-> GoodDate],
      [cat |-> CashIn, amt |-> 1, dt |-> BadDate],
      [cat |-> SpacedP2P, amt |-> 2, dt |-> GoodDate],
      [cat |-> SpacedP2P, amt |-> 1, dt |-> BadDate],
      [cat |-> Total, amt |-> 1, dt |-> GoodDate],
      [cat |-> Total, amt |-> 3, dt |-> BadDate] }

\* the cell a column of the given role takes from a template
TemplateCell(role, tpl) ==
    CASE role = "cat" -> tpl.cat
      [] role = "amt" -> AmtCells[tpl.amt]
      [] role = "amt2" -> AmtCells[(tpl.amt % Len(AmtCells)) + 1]
      [] role = "date" -> tpl.dt
      [] role = "year" -> IF tpl.dt = BadDate THEN tpl.dt
                          ELSE Str(<<"2", "0", "2", "4">>)
      [] role = "junk" -> NaN

RawTable(shape, tpls) ==
    [cols |-> [j \in 1..Len(shape) |-> shape[j][1]],
     rows |-> [r \in 1..Len(tpls) |->
                 [j \in 1..Len(shape) |-> TemplateCell(shape[j][2], tpls[r])]]]

\* sequences of length at most n over S
SeqsUpTo(S, n) == UNION {[1..k -> S] : k \in 0..n}

RawTables == {RawTable(shape, tpls) : shape \in RawShapes, tpls \in SeqsUpTo(RowTemplates, MaxRows)}

-----------------------------------------------------------------------------
(* State and actions *)

NoSeries == [index |-> <<>>, values |-> <<>>]

\* everything but pc and the inputs, before anything has run
Fresh ==
    /\ prev_df = EmptyTable
    /\ clean = EmptyTable
    /\ monthly = EmptyTable
    /\ with_growth = EmptyTable
    /\ flags = NoSeries
    /\ exc = "none"

\* tidy(df), as fetch_and_tidy and load_data call it
Tidy ==
    /\ pc = "tidy"
    /\ LET res == tidy(df)
       IN  /\ clean' = res.out
           /\ exc' = res.exc
           /\ pc' = IF res.exc = "none" THEN "aggregate_monthly" ELSE "raised"
    /\ UNCHANGED <<raw, manual, df, prev_df, monthly, with_growth, series, flags>>

\* normalize_columns(df), and once more on its own output
NormalizeColumns ==
    /\ pc \in {"tidy", "normalized"}
    /\ prev_df' = df
    /\ df' = normalize_columns(df)
    /\ pc' = IF pc = "tidy" THEN "normalized" ELSE "renormalized"
    /\ UNCHANGED <<raw, manual, clean, monthly, with_growth, series, flags, exc>>

InitEtl ==
    /\ pc = "tidy"
    /\ raw \in RawTables
    /\ df = raw
    /\ manual = ManualAbsent
    /\ series = NoSeries
    /\ Fresh

NextEtl == Tidy \/ NormalizeColumns

SpecEtl == InitEtl /\ [][NextEtl]_vars

-----------------------------------------------------------------------------
(* The pipeline: fetch_raw, tidy, aggregate_monthly, add_growth *)

\* the most rows of a scraped table and of the manual file
MaxScrapedRows == 2

MaxManualRows == 2

ScrapedShapes ==
    { \* long, canonical headers (the layout of sample_raw)
      << <<Str(L_month), "date">>, <<Str(L_category), "cat">>,
         <<Str(L_amount_crore_bdt), "amt">> >>,
      \* long, with loose headers
      << <<Str(<<"M", "o", "n", "t", "h">>), "date">>,
         <<Str(<<"P", "a", "r", "t", "i", "c", "u", "l", "a", "r", "s">>), "cat">>,
         <<Str(<<"A", "m", "o", "u", "n", "t", " ", "(", "i", "n", " ", "c", "r", "o", "r", "e", " ", "B", "D", "T", ")">>), "amt">> >>,
      \* wide
      << <<Str(<<"P", "a", "r", "t", "i", "c", "u", "l", "a", "r", "s">>), "cat">>,
         <<Str(<<"J", "a", "n", "-", "2", "0", "2", "4">>), "amt">>,
         <<Str(<<"F", "e", "b", "-", "2", "0", "2", "4">>), "amt2">> >> }

ScrapedTemplates ==
    { [cat |-> Str(<<"P", "2", "P">>), amt |-> 1,
       dt |-> Str(<<"2", "0", "2", "4", "-", "0", "1", "-", "0", "1">>)],
      [cat |-> Str(<<"C", "a", "s", "h", " ", "I", "n">>), amt |-> 2,
       dt |-> Str(<<"2", "0", "2", "4", "-", "0", "1", "-", "0", "1">>)],
      [cat |-> Str(<<"P", "2", "P">>), amt |-> 2,
       dt |-> Str(<<"2", "0", "2", "4", "-", "0", "2", "-", "0", "1">>)] }

ScrapedTables ==
    {RawTable(shape, tpls) :
        shape \in ScrapedShapes, tpls \in SeqsUpTo(ScrapedTemplates, MaxScrapedRows)}

\* the column layouts of the manual file, as read_csv returns them
ManualShapes ==
    { << <<Str(L_month), "date">>, <<Str(L_category), "cat">>, <<Str(L_amount_bdt), "amt">> >>,
      << <<Str(L_month), "date">>, <<Str(L_category), "cat">>,
         <<Str(L_amount_crore_bdt), "amt">> >>,
      << <<Str(L_month), "date">>,
         <<Str(<<" ", "C", "a", "t", "e", "g", "o", "r", "y">>), "cat">>,
         <<Str(<<"A", "m", "o", "u", "n", "t", "_", "B", "D", "T", " ">>), "amt">> >>,
      \* no category column
      << <<Str(L_month), "date">>, <<Str(L_amount_bdt), "amt">> >>,
      \* no month column
      << <<Str(L_category), "cat">>, <<Str(L_amount_bdt), "amt">> >>,
      << <<Str(<<"M", "o", "n", "t", "h">>), "date">>, <<Str(L_category), "cat">>,
         <<Str(L_amount_bdt), "amt">> >>,
      \* no amount column
      << <<Str(L_month), "date">>, <<Str(L_category), "cat">> >> }

\* the rows of the manual file: read_csv has parsed the months and the numbers
ManualRows ==
    { [dt |-> Ts(2024, 1, 1), cat |-> Str(<<"P", "2", "P">>), amt |-> Num(Dec(150))],
      [dt |-> Ts(2024, 2, 1), cat |-> Str(<<"C", "a", "s", "h", " ", "I", "n">>), amt |-> NaN],
      [dt |-> Ts(2024, 3, 1), cat |-> Str(<<"P", "2", "P">>), amt |-> Num(Dec(7))] }

ManualTable(shape, rws) ==
    [cols |-> [j \in 1..Len(shape) |-> shape[j][1]],
     rows |-> [r \in 1..Len(rws) |->
                 [j \in 1..Len(shape) |->
                    CASE shape[j][2] = "date" -> rws[r].dt
                      [] shape[j][2] = "cat" -> rws[r].cat
                      [] shape[j][2] = "amt" -> rws[r].amt]]]

ManualFiles ==
    {ManualAbsent, ManualUnreadable}
    \cup {ManualCsv(ManualTable(shape, rws)) :
            shape \in ManualShapes, rws \in SeqsUpTo(ManualRows, MaxManualRows)}

Sources_ == {<<"h", "t", "m", "l">>, <<"p", "d", "f">>}

\* raw = fetch_raw(): the table the site delivered, tagged with its source,
\* with the manual history appended
FetchRaw ==
    /\ pc = "fetch_raw"
    /\ \E source \in Sources_, mixed_sort \in {"raise", "order"} :
         LET res == fetch_raw(raw, source, manual, mixed_sort)
         IN  /\ df' = res.out
             /\ exc' = res.exc
             /\ pc' = IF res.exc = "none" THEN "tidy" ELSE "raised"
    /\ UNCHANGED <<raw, manual, prev_df, clean, monthly, with_growth, series, flags>>

\* monthly = aggregate_monthly(clean)
AggregateMonthly ==
    /\ pc = "aggregate_monthly"
    /\ monthly' = aggregate_monthly(clean)
    /\ pc' = "add_growth"
    /\ UNCHANGED <<raw, manual, df, prev_df, clean, with_growth, series, flags, exc>>

\* with_growth = add_growth(monthly)
AddGrowth ==
    /\ pc = "add_growth"
    /\ with_growth' = add_growth(monthly)
    /\ pc' = "done"
    /\ UNCHANGED <<raw, manual, df, prev_df, clean, monthly, series, flags, exc>>

InitPipeline ==
    /\ pc = "fetch_raw"
    /\ raw \in ScrapedTables
    /\ manual \in ManualFiles
    /\ df = EmptyTable
    /\ series = NoSeries
    /\ Fresh

NextPipeline == FetchRaw \/ Tidy \/ AggregateMonthly \/ AddGrowth

SpecPipeline == InitPipeline /\ [][NextPipeline]_vars

-----------------------------------------------------------------------------
(* aggregate_monthly on its own *)

\* the most rows of a tidy table
MaxTidyRows == 3

TidyRows ==
    {<<d, c, a>> :
        d \in {Ts(2024, 1, 1), Ts(2024, 1, 15), Ts(2024, 2, 1)},
        c \in {Str(<<"P", "2", "P">>), Str(<<"C", "a", "s", "h", " ", "I", "n">>)},
        a \in {Num(DecShift(Dec(1), 7)), Num(DecShift(Dec(25), 6))}}

TidyTables ==
    {[cols |-> <<Str(L_date), Str(L_category), Str(L_amount_bdt)>>, rows |-> rws] :
        rws \in SeqsUpTo(TidyRows, MaxTidyRows)}

InitAgg ==
    /\ pc = "aggregate_monthly"
    /\ clean \in TidyTables
    /\ raw = EmptyTable
    /\ df = EmptyTable
    /\ manual = ManualAbsent
    /\ series = NoSeries
    /\ prev_df = EmptyTable
    /\ monthly = EmptyTable
    /\ with_growth = EmptyTable
    /\ flags = NoSeries
    /\ exc = "none"

NextAgg == AggregateMonthly

SpecAgg == InitAgg /\ [][NextAgg]_vars

-----------------------------------------------------------------------------
(* add_growth on its own *)

\* the most months of a category series
MaxMonths == 14

\* the month i months after January 2023
MonthAt(i) == Ts(2023 + (i \div 12), 1 + (i % 12), 1)

\* the amount (in crore) of month i under each pattern
PatternAmount(pat, i) ==
    CASE pat = "linear" -> i + 1
      [] pat = "zeros" -> IF i % 3 = 0 THEN 4 ELSE 0
      [] pat = "flat" -> 5

Patterns == {"linear", "zeros", "flat"}

\* the rows of one category: months 0..n-1 but the month gap-1 (gap 0: none)
SeriesRows(cat, n, gap, pat) ==
    LET months == SortedSeq({i \in 0..(n - 1) : i # gap - 1})
    IN  [j \in 1..Len(months) |->
           <<MonthAt(months[j]), cat, Num(DecShift(Dec(PatternAmount(pat, months[j])), 7))>>]

Reverse(sq) == [i \in 1..Len(sq) |-> sq[Len(sq) + 1 - i]]

\* the row orders: by category then month, the reverse, and by month then
\* category (the order aggregate_monthly returns)
Ordered(rows, order) ==
    CASE order = "by_category" -> rows
      [] order = "reversed" -> Reverse(rows)
      [] order = "by_month" -> SortRows(rows, <<1, 2>>)

MonthlyTables ==
    {[cols |-> <<Str(L_month), Str(L_category), Str(L_amount_bdt)>>,
      rows |-> Ordered(SeriesRows(Str(<<"P", "2", "P">>), n, gap, pat)
                       \o SeriesRows(Str(<<"C", "a", "s", "h", " ", "I", "n">>), k, 0, "linear"),
                       order)] :
        n \in 1..MaxMonths, gap \in 0..MaxMonths, pat \in Patterns, k \in 0..2,
        order \in {"by_category", "reversed", "by_month"}}

InitGrowth ==
    /\ pc = "add_growth"
    /\ monthly \in MonthlyTables
    /\ raw = EmptyTable
    /\ df = EmptyTable
    /\ manual = ManualAbsent
    /\ series = NoSeries
    /\ prev_df = EmptyTable
    /\ clean = EmptyTable
    /\ with_growth = EmptyTable
    /\ flags = NoSeries
    /\ exc = "none"

NextGrowth == AddGrowth

SpecGrowth == InitGrowth /\ [][NextGrowth]_vars

-----------------------------------------------------------------------------
(* seasonal_anomaly on its own *)

\* the longest series
MaxObs == 25

\* a series of n months from January 2022: amount 5 (crore), the value at
\* position na missing (na = 0: none), the last value 50 if spike
SeriesOf(n, na, spike) ==
    [index |-> [i \in 1..n |-> Ts(2022 + ((i - 1) \div 12), 1 + ((i - 1) % 12), 1)],
     values |-> [i \in 1..n |->
                   IF i = na THEN NaN
                   ELSE IF spike /\ i = n THEN Num(DecShift(Dec(50), 7))
                   ELSE Num(DecShift(Dec(5), 7))]]

SeriesInputs == {SeriesOf(n, na, spike) : n \in 0..MaxObs, na \in 0..MaxObs, spike \in BOOLEAN}

\* flags = seasonal_anomaly(s), whatever the STL fit does: it raises, or it
\* flags no observation, or one
SeasonalAnomaly ==
    /\ pc = "seasonal_anomaly"
    /\ \E raised \in BOOLEAN, flagged \in {{}} \cup {{i} : i \in 1..Len(series.values)} :
         LET res == seasonal_anomaly(series, [raised |-> raised, flagged |-> flagged])
         IN  /\ flags' = res.out
             /\ exc' = res.exc
             /\ pc' = IF res.exc = "none" THEN "done" ELSE "raised"
    /\ UNCHANGED <<raw, manual, df, prev_df, clean, monthly, with_growth, series>>

InitAnomaly ==
    /\ pc = "seasonal_anomaly"
    /\ series \in SeriesInputs
    /\ raw = EmptyTable
    /\ df = EmptyTable
    /\ manual = ManualAbsent
    /\ Fresh

NextAnomaly == SeasonalAnomaly

SpecAnomaly == InitAnomaly /\ [][NextAnomaly]_vars

-----------------------------------------------------------------------------
(* Claims about src/etl.py, checked under SpecEtl *)

\* tidy has run on raw (and returned or raised)
TidyRan == pc \in {"aggregate_monthly", "raised"}

TidyReturned == pc = "aggregate_monthly"

\* the number of places of seq that hold x
Count(seq, x) == Cardinality({i \in 1..Len(seq) : seq[i] = x})

\* two sequences hold the same elements the same number of times
SameBag(a, b) ==
    /\ \A i \in 1..Len(a) : Count(a, a[i]) = Count(b, a[i])
    /\ \A i \in 1..Len(b) : Count(a, b[i]) = Count(b, b[i])

\* the number a cell holds once commas and non-numeric characters are stripped
CellNumber(c) == to_numeric(CleanAmount(PyStr(c)))

\* the positions of the date-like columns of a normalised table
DateLikeCols(t) == {j \in 1..Len(t.cols) : re_date(PyStr(t.cols[j]))}

LabelsDistinct(t) == \A i, j \in 1..Len(t.cols) : i # j => t.cols[i] # t.cols[j]

\* what a source (row, month, amount cell) contributes: the record, or
\* nothing when the row fails the filter or the amount or the date is missing
SourceRecord(catCell, dateCell, amtCell) ==
    <<dateCell, Str(Strip(PyStr(catCell))), Num(DecShift(DecOf(CellNumber(amtCell)), 7))>>

\* the (category cell, date, amount cell) sources of a raw table: of a wide
\* table one per (row, date-like column), of a long table one per row
Sources(t) ==
    LET n == normalize_columns(t)
        catCol == IF HasCol(n, L_category) THEN Col(n, L_category) ELSE 1
    IN  IF HasCol(n, L_amount_crore_bdt)
        THEN [r \in 1..Len(n.rows) |->
                [cat |-> n.rows[r][catCol],
                 date |-> IF HasCol(n, L_month) THEN to_datetime(n.rows[r][Col(n, L_month)])
                          ELSE IF HasCol(n, L_year)
                          THEN to_datetime(Str(PyStr(n.rows[r][Col(n, L_year)])
                                               \o <<"-", "0", "1", "-", "0", "1">>))
                          ELSE NaN,
                 amt |-> n.rows[r][Col(n, L_amount_crore_bdt)]]]
        ELSE LET dl == SortedSeq(DateLikeCols(n))
             IN  Flatten([c \in 1..Len(dl) |->
                    [r \in 1..Len(n.rows) |->
                       [cat |-> n.rows[r][catCol],
                        date |-> to_datetime(n.cols[dl[c]]),
                        amt |-> n.rows[r][dl[c]]]]])

C8_NormalizeIdempotent ==
    pc = "renormalized" =>
        /\ df = prev_df
        /\ \A i \in 1..Len(CANON) :
             CanonGet(NormLabel(Str(CANON[i][2]))) = CANON[i][2]

\* C8 witness: the second pass ran on a table whose first pass dropped a
\* column and renamed the header " Items " to category.
C8_Witness ==
    /\ pc = "renormalized"
    /\ Len(df.cols) < Len(raw.cols)
    /\ Len(df.rows) >= 1
    /\ \E j \in 1..Len(raw.cols) : raw.cols[j] = Str(<<" ", "I", "t", "e", "m", "s", " ">>)
    /\ \E j \in 1..Len(df.cols) : df.cols[j] = Str(L_category)
    /\ \E j \in 1..Len(df.cols) : df.cols[j] = Str(L_amount_crore_bdt)

\* the wide tables of C9: after normalisation no amount_crore_bdt column, one
\* category column, at least one date-like header
WideForm(t) ==
    LET n == normalize_columns(t)
    IN  /\ ~HasCol(n, L_amount_crore_bdt)
        /\ HasCol(n, L_category)
        /\ DateLikeCols(n) # {}

\* ... and moreover the normalised labels are distinct and none is month
WideFormDistinct(t) ==
    /\ WideForm(t)
    /\ LabelsDistinct(normalize_columns(t))
    /\ ~HasCol(normalize_columns(t), L_month)

\* the records C9 expects of the sources that satisfy Keep
ExpectedRecords(t, Keep(_)) ==
    LET src == Sources(t)
        idx == SortedSeq({i \in 1..Len(src) : Keep(src[i])})
    IN  [j \in 1..Len(idx) |-> SourceRecord(src[idx[j]].cat, src[idx[j]].date, src[idx[j]].amt)]

PassesFilter(src) == ContainsMarker(Strip(PyStr(src.cat))) /\ ~IsNA(CellNumber(src.amt))

ParsedHeader(src) == PassesFilter(src) /\ ~IsNA(src.date)

C10_StructuralFailureEmpty ==
    LET n == normalize_columns(raw)
    IN  (/\ TidyRan
         /\ \/ ~HasCol(n, L_amount_crore_bdt) /\ DateLikeCols(n) = {}
            \/ HasCol(n, L_amount_crore_bdt) /\ ~HasCol(n, L_month) /\ ~HasCol(n, L_year))
        => (exc = "none" /\ clean.rows = <<>>)

-----------------------------------------------------------------------------
(* Claims about src/fetch.py and the pipeline, checked under SpecPipeline *)

FetchRawRan == pc # "fetch_raw"

\* fetch_raw raised: nothing was returned and no later stage ran
FetchRawRaised == pc = "raised" /\ df = EmptyTable

\* the scraped table as _append_manual_if_present receives it
Tagged(t, source) ==
    SetCol(t, <<"s", "o", "u", "r", "c", "e">>, [r \in 1..Len(t.rows) |-> Str(source)])

\* the manual file has a month, a category and an amount column
ManualWellFormed ==
    /\ manual.state = "csv"
    /\ HasCol(manual.table, L_month)
    /\ ManualLookup(manual.table, L_category) # 0
    /\ \/ ManualLookup(manual.table, L_amount_bdt) # 0
       \/ ManualLookup(manual.table, L_amount_crore_bdt) # 0

\* the records of the manual file: (month, category, amount in BDT)
ManualRecords ==
    LET t == manual.table
        a_bdt == ManualLookup(t, L_amount_bdt)
    IN  [r \in 1..Len(t.rows) |->
           <<t.rows[r][ManualLookup(t, L_month)],
             t.rows[r][ManualLookup(t, L_category)],
             IF a_bdt # 0 THEN Num(ManualAmount(t.rows[r][a_bdt]))
             ELSE Num(DecShift(ManualAmount(t.rows[r][ManualLookup(t, L_amount_crore_bdt)]), 7))>>]

\* the records the scraped table yields by itself
ScrapedRecords == tidy(raw).out.rows

\* the (month, category) key of a record
KeyOf(rec) == <<Ts(rec[1].n[1], rec[1].n[2], 1), rec[2]>>

\* the positions of the records of recs with key k
WithKey(recs, k) == {i \in 1..Len(recs) : KeyOf(recs[i]) = k}

\* C1 (Manual Override Merge): with a manual file that has its three columns,
\* the pipeline reaches the aggregator, and for every (month, category) key
\* present in both the scraped and the manual records the data handed to
\* aggregate_monthly holds exactly one record, with the amount of the (last)
\* manual record; a key with a single record in one input only keeps that
\* record.
C1_ManualWins ==
    (pc \in {"aggregate_monthly", "raised"} /\ ManualWellFormed /\ tidy(raw).exc = "none") =>
        /\ exc = "none"
        /\ \A i \in 1..Len(ManualRecords) :
             LET k == KeyOf(ManualRecords[i])
                 last == CHOOSE q \in WithKey(ManualRecords, k) :
                            \A o \in WithKey(ManualRecords, k) : o <= q
             IN  /\ Cardinality(WithKey(clean.rows, k)) = 1
                 /\ \A j \in WithKey(clean.rows, k) : clean.rows[j][3] = ManualRecords[last][3]
        /\ \A i \in 1..Len(ScrapedRecords) :
             LET k == KeyOf(ScrapedRecords[i])
             IN  (WithKey(ManualRecords, k) = {} /\ WithKey(ScrapedRecords, k) = {i}) =>
                     /\ Cardinality(WithKey(clean.rows, k)) = 1
                     /\ \A j \in WithKey(clean.rows, k) : clean.rows[j] = ScrapedRecords[i]

\* the manual file exists but is unreadable or lacks the month, the category
\* or the amount column
ManualMalformed ==
    \/ manual.state = "unreadable"
    \/ /\ manual.state = "csv"
       /\ \/ ManualLookup(manual.table, L_month) = 0
          \/ ManualLookup(manual.table, L_category) = 0
          \/ /\ ManualLookup(manual.table, L_amount_bdt) = 0
             /\ ManualLookup(manual.table, L_amount_crore_bdt) = 0

\* C2 (malformed manual override input is never fatal): when the manual file
\* is unreadable or lacks the month, the category or the amount column,
\* fetch_raw raises nothing and returns the scraped table unchanged.
C2_MalformedManualNotFatal ==
    (FetchRawRan /\ ManualMalformed) =>
        /\ ~FetchRawRaised
        /\ \E source \in Sources_ : df = Tagged(raw, source)

-----------------------------------------------------------------------------
(* Claims about aggregate_monthly, checked under SpecAgg *)

AggregateRan == pc \in {"add_growth", "done"}

\* the date of rec falls in the month of the first-of-month mo
InMonth(rec, mo) == rec[1].n[1] = mo.n[1] /\ rec[1].n[2] = mo.n[2]

\* the sum of the amounts of the records of category cat dated in month mo
RECURSIVE TotalOf(_, _, _)
TotalOf(recs, mo, cat) ==
    IF recs = <<>> THEN DecZero
    ELSE IF InMonth(Head(recs), mo) /\ Head(recs)[2] = cat
    THEN DecAdd(DecOf(Head(recs)[3]), TotalOf(Tail(recs), mo, cat))
    ELSE TotalOf(Tail(recs), mo, cat)

\* C3 (Monthly Aggregator): the output has the columns month, category,
\* amount_bdt; it has exactly one row for each (first-of-month, category)
\* combination of the input and no other row; and the amount of a row is the
\* sum of the amounts of the input records of that category whose date falls
\* in that month.
C3_MonthlyAggregate ==
    AggregateRan =>
        /\ monthly.cols = <<Str(L_month), Str(L_category), Str(L_amount_bdt)>>
        /\ \A i \in 1..Len(clean.rows) :
             Cardinality({j \in 1..Len(monthly.rows) :
                 /\ monthly.rows[j][1] = Ts(clean.rows[i][1].n[1], clean.rows[i][1].n[2], 1)
                 /\ monthly.rows[j][2] = clean.rows[i][2]}) = 1
        /\ \A j \in 1..Len(monthly.rows) :
             LET row == monthly.rows[j]
             IN  /\ row[1].k = "ts" /\ row[1].n[3] = 1
                 /\ \E i \in 1..Len(clean.rows) :
                      InMonth(clean.rows[i], row[1]) /\ clean.rows[i][2] = row[2]
                 /\ row[3] = Num(TotalOf(clean.rows, row[1], row[2]))

\* C3 witness: two records of one month and category, on different days, were
\* summed into one row while another key kept a row of its own.
C3_Witness ==
    /\ pc = "add_growth"
    /\ Len(monthly.rows) = 2
    /\ Len(clean.rows) = 3
    /\ \E i, q \in 1..Len(clean.rows) :
         /\ clean.rows[i][1] # clean.rows[q][1]
         /\ KeyOf(clean.rows[i]) = KeyOf(clean.rows[q])
    /\ \E j \in 1..Len(monthly.rows) : monthly.rows[j][3] = Num(DecShift(Dec(35), 6))

-----------------------------------------------------------------------------
(* Claims about add_growth, checked under SpecGrowth *)

GrowthRan == pc = "done"

\* one row per (month, category)
OnePerKey(t) ==
    \A i, j \in 1..Len(t.rows) :
        (t.rows[i][1] = t.rows[j][1] /\ t.rows[i][2] = t.rows[j][2]) => i = j

\* the months since year 0 of a first-of-month
MonthNo(d) == d.n[1] * 12 + d.n[2] - 1

\* the rows of with_growth of the category of row i that are earlier months
Earlier(i) ==
    {j \in 1..Len(with_growth.rows) :
        /\ with_growth.rows[j][2] = with_growth.rows[i][2]
        /\ MonthNo(with_growth.rows[j][1]) < MonthNo(with_growth.rows[i][1])}

\* the rows of with_growth of the category of row i dated k months before it
Back(i, k) ==
    {j \in 1..Len(with_growth.rows) :
        /\ with_growth.rows[j][2] = with_growth.rows[i][2]
        /\ MonthNo(with_growth.rows[j][1]) = MonthNo(with_growth.rows[i][1]) - k}

Mom(i) == with_growth.rows[i][Col(with_growth, L_mom)]

Yoy(i) == with_growth.rows[i][Col(with_growth, L_yoy)]

Amount(i) == DecOf(with_growth.rows[i][3])

\* the output keeps the input rows and adds the columns mom and yoy
GrowthShape ==
    /\ with_growth.cols =
          <<Str(L_month), Str(L_category), Str(L_amount_bdt), Str(L_mom), Str(L_yoy)>>
    /\ SameBag([i \in 1..Len(with_growth.rows) |-> SubSeq(with_growth.rows[i], 1, 3)],
               monthly.rows)

\* C4 as stated (growth boundary): the output has the columns mom and yoy;
\* within a category mom is absent for the first month and present for every
\* later month that follows its predecessor consecutively; yoy is absent for
\* the category's first 12 months.
C4_Original ==
    (GrowthRan /\ OnePerKey(monthly)) =>
        /\ GrowthShape
        /\ \A i \in 1..Len(with_growth.rows) :
             /\ Earlier(i) = {} => IsNA(Mom(i))
             /\ Back(i, 1) # {} => ~IsNA(Mom(i))
             /\ Cardinality(Earlier(i)) < YoyPeriods => IsNA(Yoy(i))

\* C4 as amended: as above, but mom is present for a later consecutive month
\* unless the amount of that month and the amount of the month before it are
\* both zero (then 0/0 leaves mom absent).
C4_GrowthBoundary ==
    (GrowthRan /\ OnePerKey(monthly)) =>
        /\ GrowthShape
        /\ \A i \in 1..Len(with_growth.rows) :
             /\ Earlier(i) = {} => IsNA(Mom(i))
             /\ \A j \in Back(i, 1) :
                  IsNA(Mom(i)) <=> (Amount(i).m = 0 /\ Amount(j).m = 0)
             /\ Cardinality(Earlier(i)) < YoyPeriods => IsNA(Yoy(i))

\* C4 witness: two categories given in reverse order, one with 14 consecutive
\* months: its first month has no mom, a later month has one, a month of
\* amount zero after a month of amount zero has none, and its 13th month has
\* a yoy.
C4_Witness ==
    /\ GrowthRan
    /\ OnePerKey(monthly)
    /\ Len(monthly.rows) >= 2
    /\ monthly.rows[1][2] # monthly.rows[Len(monthly.rows)][2]
    /\ MonthNo(monthly.rows[Len(monthly.rows)][1]) < MonthNo(monthly.rows[Len(monthly.rows) - 1][1])
    /\ \E i \in 1..Len(with_growth.rows) : Earlier(i) = {} /\ IsNA(Mom(i))
    /\ \E i \in 1..Len(with_growth.rows) : Back(i, 1) # {} /\ Mom(i).k = "frac"
    /\ \E i \in 1..Len(with_growth.rows) :
         Back(i, 1) # {} /\ Amount(i).m = 0 /\ IsNA(Mom(i))
    /\ \E i \in 1..Len(with_growth.rows) :
         Cardinality(Earlier(i)) = YoyPeriods /\ ~IsNA(Yoy(i))

AllPositive(t) == \A i \in 1..Len(t.rows) : DecOf(t.rows[i][3]).m > 0

\* C5 (growth against the previous chronological month): for input amounts
\* that are positive, mom of a row is defined if and only if its category has
\* a row for the calendar month just before, and then it is amount / that
\* month's amount - 1; yoy likewise with the month 12 calendar months earlier.
C5_ChronologicalGrowth ==
    (GrowthRan /\ OnePerKey(monthly) /\ AllPositive(monthly)) =>
        \A i \in 1..Len(with_growth.rows) :
            /\ ~IsNA(Mom(i)) <=> Back(i, 1) # {}
            /\ \A j \in Back(i, 1) : Mom(i) = pct(Amount(i), Amount(j))
            /\ ~IsNA(Yoy(i)) <=> Back(i, YoyPeriods) # {}
            /\ \A j \in Back(i, YoyPeriods) : Yoy(i) = pct(Amount(i), Amount(j))

-----------------------------------------------------------------------------
(* Claims about seasonal_anomaly, checked under SpecAnomaly *)

\* C6 (anomaly minimum history): for a series of 23 or fewer observations,
\* whatever its values and whatever the decomposition would do,
\* seasonal_anomaly raises nothing and returns one flag per observation, on
\* the index of the input, every flag false.
C6_MinimumHistory ==
    (pc \in {"done", "raised"} /\ Len(series.values) <= 23) =>
        /\ exc = "none"
        /\ flags.index = series.index
        /\ Len(flags.values) = Len(series.values)
        /\ \A i \in 1..Len(flags.values) : flags.values[i] = FALSE

\* C6 witness: a series of 23 observations with a missing value and a spike
\* came back with 23 false flags.
C6_Witness ==
    /\ pc = "done"
    /\ Len(series.values) = 23
    /\ \E i \in 1..23 : IsNA(series.values[i])
    /\ series.values[23] = Num(DecShift(Dec(50), 7))
    /\ Len(flags.values) = 23
    /\ \A i \in 1..23 : flags.values[i] = FALSE

\* C11 (anomaly decomposition failure is contained): for a series of at
\* least 24 observations seasonal_anomaly raises nothing, whatever the
\* decomposition does, and returns one flag per observation on the index of
\* the input (all false when the decomposition failed).
C11_DecompositionFailureContained ==
    (pc \in {"done", "raised"} /\ Len(series.values) >= MinObs) =>
        /\ exc = "none"
        /\ flags.index = series.index
        /\ Len(flags.values) = Len(series.values)

=============================================================================
